---- MODULE Spec2Model ----
(***************************************************************************)
(* Model of xeokit's Model class (src/scene/models/Model.js): a registry   *)
(* of components with derived indices (types, objects, meshes, entities,   *)
(* entityTypes, guidObjects) and three lazily rebuilt id lists.            *)
(* Two Models, "A" and "B", live in one Scene, "S"; a third Model, "X",    *)
(* lives in another Scene, "S2", and no call is made on it.                *)
(***************************************************************************)
EXTENDS Integers, FiniteSets, Sequences, TLC

\* ------------------------------------------------------------------ bounds
\* The number of calls made on the two Models in one behaviour (numComponents
\* is never decremented by _removeComponent, so it grows with the calls made).
MaxCalls == 4

\* ---------------------------------------------------------------- universe
None == "none"                       \* null / undefined / property not set

Models == {"A", "B"}                 \* the two Models of Scene "S"
OtherSceneModels == {"X"}            \* the Model of Scene "S2"
AllModels == Models \cup OtherSceneModels

Comps == {"c1", "c2", "c3", "c4", "c5"}

\* The components of the universe, by what Model.js reads of a component.
\* c1: a Mesh that is an entity, guid equal to its id.
\* c2: an Object that is an entity, guid different from its id.
\* c3: a plain component (not an Object), created by add(cfg).
\* c4: an Object without entityType whose guid equals the id of c2.
\* c5: a component of another Scene, attached to the Model of that Scene.
Component ==
    [c \in Comps |->
       CASE c = "c1" -> [id |-> "a", type |-> "Mesh", scene |-> "S", isObject |-> TRUE,
                         isMesh |-> TRUE, entityType |-> "wall", guid |-> "a"]
         [] c = "c2" -> [id |-> "b", type |-> "Object", scene |-> "S", isObject |-> TRUE,
                         isMesh |-> FALSE, entityType |-> "wall", guid |-> "g"]
         [] c = "c3" -> [id |-> "c", type |-> "Material", scene |-> "S", isObject |-> FALSE,
                         isMesh |-> FALSE, entityType |-> None, guid |-> None]
         [] c = "c4" -> [id |-> "d", type |-> "Object", scene |-> "S", isObject |-> TRUE,
                         isMesh |-> FALSE, entityType |-> None, guid |-> "b"]
         [] c = "c5" -> [id |-> "e", type |-> "Object", scene |-> "S2", isObject |-> TRUE,
                         isMesh |-> FALSE, entityType |-> None, guid |-> None]]

Keys == {"a", "b", "c", "d", "e", "g"}      \* ids and guids: the keys of the maps
TypeTags == {"Mesh", "Object", "Material"}  \* values of component.type
EntityTypeTags == {"wall"}                  \* values of object.entityType

\* Component configs that _addComponent may be given: one of a known component
\* type, which constructs c3 (once: ids are unique in a Scene), and one whose
\* type is no component type.
Configs == {"cfgMaterial", "cfgBogus"}
ConfigType == [g \in Configs |-> IF g = "cfgMaterial" THEN "Material" ELSE "Bogus"]
ConfigComp == [g \in Configs |-> IF g = "cfgMaterial" THEN "c3" ELSE None]

\* ------------------------------------------------------- JavaScript objects
\* An object used as a map from keys to components: None where no property.
EmptyMap == [k \in Keys |-> None]
Put(map, k, v) == [map EXCEPT ![k] = v]
Delete(map, k) == [map EXCEPT ![k] = None]
KeysOf(map) == {k \in Keys : map[k] # None}      \* Object.keys, as a set
ValuesOf(map) == {map[k] : k \in KeysOf(map)}

\* A map of maps: for each outer key, whether the sub-map exists, and the sub-map.
NoSubMap == [present |-> FALSE, map |-> EmptyMap]
SubKeys(mm) == {t \in DOMAIN mm : mm[t].present}

\* A lazily regenerated id list: null, or the array of keys it was built from.
NullList == [valid |-> FALSE, keys |-> {}]

VARIABLES
    reg,        \* reg[m]: the fields of Model m
    model,      \* model[c]: component c's back-reference to its Model, or None
    created,    \* the components constructed so far
    destroyed,  \* destroyed[c]: the number of destroy() calls c has received
    clr,        \* the clear() in progress, if any: its Model, loop and visited keys
    calls,      \* the number of calls made so far
    last,       \* the last completed call: operation, Model, component, results
    notified    \* notified[m]: the calls the Scene has received about Model m

vars == <<reg, model, created, destroyed, clr, calls, last, notified>>

\* Model.init: every map empty, the counter 0, the lists null.
init ==
    [components |-> EmptyMap,
     numComponents |-> 0,
     types |-> [t \in TypeTags |-> NoSubMap],
     objects |-> EmptyMap,
     guidObjects |-> EmptyMap,
     meshes |-> EmptyMap,
     entities |-> EmptyMap,
     entityTypes |-> [e \in EntityTypeTags |-> NoSubMap],
     _objectGUIDs |-> NullList,
     _entityIds |-> NullList,
     _entityTypeIds |-> NullList]

Idle == [m |-> None, phase |-> "idle", visited |-> {}]

Call(op, m, c, ret, keys) == [op |-> op, m |-> m, c |-> c, ret |-> ret, keys |-> keys]

\* ------------------------------------------------------------ Component.js
\* component._addedToModel(model): the component records its Model.
_addedToModel(mdl, c, m) == [mdl EXCEPT ![c] = m]

\* scene.components[id] of Scene "S": the live component of that id, or None.
SceneComponent(k) ==
    IF \E c \in created : Component[c].id = k /\ Component[c].scene = "S" /\ destroyed[c] = 0
    THEN CHOOSE c \in created : Component[c].id = k /\ Component[c].scene = "S" /\ destroyed[c] = 0
    ELSE None

\* core.isComponentType(type)
isComponentType(type) == type \in TypeTags

\* ---------------------------------------------------------------- Model.js
\* Model._removeComponent(component), on the fields r of the Model.
\* As _removeComponent, without "delete this.objects[id]".
_removeComponent_keepsObject(r, c) ==
    LET id == Component[c].id
        et == Component[c].entityType
        guid == Component[c].guid
        r1 == [r EXCEPT !.components = Delete(@, id),
                        !.meshes = Delete(@, id)]
        r2 == IF et # None
              THEN [r1 EXCEPT !.entities = Delete(@, id),
                              !.entityTypes = IF @[et].present
                                              THEN [@ EXCEPT ![et].map = Delete(@, id)]
                                              ELSE @,
                              !._entityIds = NullList,
                              !._entityTypeIds = NullList]
              ELSE r1
    IN  IF guid # None
        THEN [r2 EXCEPT !.guidObjects = Delete(@, guid),
                        !._objectGUIDs = NullList]
        ELSE r2

_removeComponent(r, c) ==
    LET id == Component[c].id
        et == Component[c].entityType
        guid == Component[c].guid
        r1 == [r EXCEPT !.components = Delete(@, id),
                        !.meshes = Delete(@, id),
                        !.objects = Delete(@, id)]
        r2 == IF et # None
              THEN [r1 EXCEPT !.entities = Delete(@, id),
                              !.entityTypes = IF @[et].present
                                              THEN [@ EXCEPT ![et].map = Delete(@, id)]
                                              ELSE @,
                              !._entityIds = NullList,
                              !._entityTypeIds = NullList]
              ELSE r1
    IN  IF guid # None
        THEN [r2 EXCEPT !.guidObjects = Delete(@, guid),
                        !._objectGUIDs = NullList]
        ELSE r2

\* As AlreadyInModel, with the test of line 199 left out.
AlreadyInModel_never(r, c) == FALSE

\* "Component already in this Model": this.components[component.id] is set.
AlreadyInModel(r, c) == r.components[Component[c].id] # None

\* "Component in other Model": component.model is set and is not this Model.
InOtherModel(mdl, c, m) == mdl[c] # None /\ mdl[c] # m

\* As Attach, without the registration in this.types (lines 206-210).
Attach_skipsTypes(r, c) ==
    LET id == Component[c].id
        et == Component[c].entityType
        guid == Component[c].guid
        r1 == [r EXCEPT !.components = Put(@, id, c)]
        r2 == IF Component[c].isObject
              THEN [r1 EXCEPT !.objects = Put(@, id, c)]
              ELSE r1
        r3 == IF Component[c].isObject /\ et # None
              THEN [r2 EXCEPT !.entities = Put(@, id, c),
                              !.entityTypes[et] = [present |-> TRUE, map |-> Put(@.map, id, c)],
                              !._entityIds = NullList,
                              !._entityTypeIds = NullList]
              ELSE r2
        r4 == IF Component[c].isObject /\ guid # None
              THEN [r3 EXCEPT !.guidObjects = Put(@, id, c),
                              !._objectGUIDs = NullList]
              ELSE r3
        r5 == IF Component[c].isObject /\ Component[c].isMesh
              THEN [r4 EXCEPT !.meshes = Put(@, id, c)]
              ELSE r4
    IN  [r5 EXCEPT !.numComponents = @ + 1]

\* Lines 205-233 of _addComponent: the component enters the maps of the Model.
Attach(r, c) ==
    LET id == Component[c].id
        type == Component[c].type
        et == Component[c].entityType
        guid == Component[c].guid
        r1 == [r EXCEPT !.components = Put(@, id, c),
                        !.types[type] = [present |-> TRUE, map |-> Put(@.map, id, c)]]
        r2 == IF Component[c].isObject
              THEN [r1 EXCEPT !.objects = Put(@, id, c)]
              ELSE r1
        r3 == IF Component[c].isObject /\ et # None
              THEN [r2 EXCEPT !.entities = Put(@, id, c),
                              !.entityTypes[et] = [present |-> TRUE, map |-> Put(@.map, id, c)],
                              !._entityIds = NullList,
                              !._entityTypeIds = NullList]
              ELSE r2
        r4 == IF Component[c].isObject /\ guid # None
              THEN [r3 EXCEPT !.guidObjects = Put(@, id, c),
                              !._objectGUIDs = NullList]
              ELSE r3
        r5 == IF Component[c].isObject /\ Component[c].isMesh
              THEN [r4 EXCEPT !.meshes = Put(@, id, c)]
              ELSE r4
    IN  [r5 EXCEPT !.numComponents = @ + 1]

\* As Added, without the test of component.scene (lines 195-198).
Added_noSceneCheck(rg, mdl, c, m) ==
    IF AlreadyInModel(rg[m], c)
    THEN rg
    ELSE LET rg1 == IF InOtherModel(mdl, c, m)
                    THEN [rg EXCEPT ![mdl[c]] = _removeComponent(@, c)]
                    ELSE rg
         IN  [rg1 EXCEPT ![m] = Attach(@, c)]

\* The registries after _addComponent on Model m has resolved its argument to
\* component c: lines 195-233.
Added(rg, mdl, c, m) ==
    IF Component[c].scene # "S" \/ AlreadyInModel(rg[m], c)
    THEN rg
    ELSE LET rg1 == IF InOtherModel(mdl, c, m)
                    THEN [rg EXCEPT ![mdl[c]] = _removeComponent(@, c)]
                    ELSE rg
         IN  [rg1 EXCEPT ![m] = Attach(@, c)]

\* Whether that call attaches c (and returns it) rather than returning nothing.
Attaches(rg, c, m) == Component[c].scene = "S" /\ ~AlreadyInModel(rg[m], c)

\* As Reset, with "this.entityTypes = {}" added.
Reset_resetsEntityTypes(r) ==
    [r EXCEPT !.components = EmptyMap,
              !.numComponents = 0,
              !.types = [t \in TypeTags |-> NoSubMap],
              !.objects = EmptyMap,
              !.meshes = EmptyMap,
              !.entities = EmptyMap,
              !.entityTypes = [e \in EntityTypeTags |-> NoSubMap]]

\* As Reset, without "this.types = {}".
Reset_keepsTypes(r) ==
    [r EXCEPT !.components = EmptyMap,
              !.numComponents = 0,
              !.objects = EmptyMap,
              !.meshes = EmptyMap,
              !.entities = EmptyMap]

\* Model.clear, lines 275-280: the maps and the counter are reset.
Reset(r) ==
    [r EXCEPT !.components = EmptyMap,
              !.numComponents = 0,
              !.types = [t \in TypeTags |-> NoSubMap],
              !.objects = EmptyMap,
              !.meshes = EmptyMap,
              !.entities = EmptyMap]

\* The getters: the list is regenerated from the keys of its map when it is null.
objectGUIDs(r) ==
    IF ~r._objectGUIDs.valid
    THEN [r EXCEPT !._objectGUIDs = [valid |-> TRUE, keys |-> KeysOf(r.guidObjects)]]
    ELSE r

entityTypeIds(r) ==
    IF ~r._entityTypeIds.valid
    THEN [r EXCEPT !._entityTypeIds = [valid |-> TRUE, keys |-> SubKeys(r.entityTypes)]]
    ELSE r

entityIds(r) ==
    IF ~r._entityIds.valid
    THEN [r EXCEPT !._entityIds = [valid |-> TRUE, keys |-> KeysOf(r.entities)]]
    ELSE r

\* component.destroy(), as far as a Model sees it: the component may remove
\* itself from the Model it refers to ("Groups in this Model will remove
\* themselves when they're destroyed"), or may not.
destroy(rg, mdl, c, removesItself) ==
    IF removesItself /\ mdl[c] # None
    THEN [rg EXCEPT ![mdl[c]] = _removeComponent(@, c)]
    ELSE rg

\* The state after construction of the Models: those of Scene "S" empty, c5
\* attached to the Model of its own Scene.
Init ==
    /\ reg = [m \in AllModels |-> IF m \in Models THEN init ELSE Attach(init, "c5")]
    /\ model = [c \in Comps |-> IF c = "c5" THEN "X" ELSE None]
    /\ created = Comps \ {"c3"}
    /\ destroyed = [c \in Comps |-> 0]
    /\ clr = Idle
    /\ calls = 0
    /\ last = Call("init", None, None, None, {})
    /\ notified = [m \in Models |-> [_modelCreated |-> 1, _modelDestroyed |-> 0]]

\* ----------------------------------------------------------------- actions
\* A call is made from outside: no clear() is in progress (execution is
\* single-threaded and synchronous).
Enter ==
    /\ clr = Idle
    /\ calls < MaxCalls
    /\ calls' = calls + 1

\* _addComponent, once its argument is resolved to component c.
AddResolved(m, c) ==
    /\ reg' = Added(reg, model, c, m)
    /\ model' = IF Attaches(reg, c, m) THEN _addedToModel(model, c, m) ELSE model
    /\ last' = Call("add", m, c, IF Attaches(reg, c, m) THEN c ELSE None, {})

\* _addComponent returning at lines 185 or 191.
AddUnresolved(m) ==
    /\ UNCHANGED <<reg, model>>
    /\ last' = Call("add", m, None, None, {})

\* _addComponent(id)
AddById(m, k) ==
    /\ Enter
    /\ IF SceneComponent(k) = None
       THEN AddUnresolved(m)
       ELSE AddResolved(m, SceneComponent(k))
    /\ UNCHANGED <<created, destroyed, clr, notified>>

\* _addComponent(cfg): a component of type cfg.type is constructed, then added.
AddByConfig(m, g) ==
    /\ Enter
    /\ IF ~isComponentType(ConfigType[g])
       THEN AddUnresolved(m) /\ UNCHANGED created
       ELSE /\ ConfigComp[g] \notin created
            /\ created' = created \cup {ConfigComp[g]}
            /\ AddResolved(m, ConfigComp[g])
    /\ UNCHANGED <<destroyed, clr, notified>>

\* _addComponent(component), for a component that has not been destroyed.
AddComponent(m, c) ==
    /\ Enter
    /\ c \in created /\ destroyed[c] = 0
    /\ AddResolved(m, c)
    /\ UNCHANGED <<created, destroyed, clr, notified>>

\* _removeComponent(component), for a component that has not been destroyed.
RemoveComponent(m, c) ==
    /\ Enter
    /\ c \in created /\ destroyed[c] = 0
    /\ reg' = [reg EXCEPT ![m] = _removeComponent(@, c)]
    /\ last' = Call("remove", m, c, None, {})
    /\ UNCHANGED <<model, created, destroyed, clr, notified>>

ReadObjectGUIDs(m) ==
    /\ Enter
    /\ reg' = [reg EXCEPT ![m] = objectGUIDs(@)]
    /\ last' = Call("objectGUIDs", m, None, None, reg'[m]._objectGUIDs.keys)
    /\ UNCHANGED <<model, created, destroyed, clr, notified>>

ReadEntityTypeIds(m) ==
    /\ Enter
    /\ reg' = [reg EXCEPT ![m] = entityTypeIds(@)]
    /\ last' = Call("entityTypeIds", m, None, None, reg'[m]._entityTypeIds.keys)
    /\ UNCHANGED <<model, created, destroyed, clr, notified>>

ReadEntityIds(m) ==
    /\ Enter
    /\ reg' = [reg EXCEPT ![m] = entityIds(@)]
    /\ last' = Call("entityIds", m, None, None, reg'[m]._entityIds.keys)
    /\ UNCHANGED <<model, created, destroyed, clr, notified>>

\* clear() is entered: the loop over this.meshes begins. The call is recorded
\* with the ids that are keys of this.components at that time.
ClearStart(m) ==
    /\ Enter
    /\ clr' = [m |-> m, phase |-> "meshes", visited |-> {}]
    /\ last' = Call("clear", m, None, None, KeysOf(reg[m].components))
    /\ UNCHANGED <<reg, model, created, destroyed, notified>>

\* destroy() is entered: super.destroy(), then clear() begins (lines 330-331).
DestroyStart(m) ==
    /\ Enter
    /\ clr' = [m |-> m, phase |-> "meshes", visited |-> {}]
    /\ last' = Call("destroy", m, None, None, KeysOf(reg[m].components))
    /\ UNCHANGED <<reg, model, created, destroyed, notified>>

\* Line 332: this.scene._modelDestroyed(this); destroy() returns.
DestroyNotify ==
    /\ clr.phase = "notify"
    /\ notified' = [notified EXCEPT ![clr.m]._modelDestroyed = @ + 1]
    /\ clr' = Idle
    /\ UNCHANGED <<reg, model, created, destroyed, calls, last>>

\* The keys a for-in loop over map has still to visit.
Remaining(map) == KeysOf(map) \ clr.visited

\* One iteration of the loop at lines 265-269.
ClearMesh ==
    /\ clr.phase = "meshes"
    /\ \E id \in Remaining(reg[clr.m].meshes) : \E removesItself \in BOOLEAN :
         LET c == reg[clr.m].meshes[id]
         IN  /\ reg' = destroy(reg, model, c, removesItself)
             /\ destroyed' = [destroyed EXCEPT ![c] = @ + 1]
             /\ clr' = [clr EXCEPT !.visited = @ \cup {id}]
    /\ UNCHANGED <<model, created, calls, last, notified>>

\* As ClearMeshesDone, with the loop over this.meshes left at any time.
ClearMeshesDone_early ==
    /\ clr.phase = "meshes"
    /\ clr' = [clr EXCEPT !.phase = "components", !.visited = {}]
    /\ UNCHANGED <<reg, model, created, destroyed, calls, last, notified>>

\* The first loop ends, the loop over this.components begins.
ClearMeshesDone ==
    /\ clr.phase = "meshes"
    /\ Remaining(reg[clr.m].meshes) = {}
    /\ clr' = [clr EXCEPT !.phase = "components", !.visited = {}]
    /\ UNCHANGED <<reg, model, created, destroyed, calls, last, notified>>

\* One iteration of the loop at lines 270-274.
ClearComponent ==
    /\ clr.phase = "components"
    /\ \E id \in Remaining(reg[clr.m].components) : \E removesItself \in BOOLEAN :
         LET c == reg[clr.m].components[id]
         IN  /\ reg' = destroy(reg, model, c, removesItself)
             /\ destroyed' = [destroyed EXCEPT ![c] = @ + 1]
             /\ clr' = [clr EXCEPT !.visited = @ \cup {id}]
    /\ UNCHANGED <<model, created, calls, last, notified>>

\* The second loop ends; lines 275-280; clear() returns, to its caller
\* destroy() if that is where it was called from.
ClearReset ==
    /\ clr.phase = "components"
    /\ Remaining(reg[clr.m].components) = {}
    /\ reg' = [reg EXCEPT ![clr.m] = Reset(@)]
    /\ clr' = IF last.op = "destroy"
              THEN [clr EXCEPT !.phase = "notify", !.visited = {}]
              ELSE Idle
    /\ UNCHANGED <<model, created, destroyed, calls, last, notified>>

Next ==
    \/ \E m \in Models, k \in Keys : AddById(m, k)
    \/ \E m \in Models, g \in Configs : AddByConfig(m, g)
    \/ \E m \in Models, c \in Comps : AddComponent(m, c)
    \/ \E m \in Models, c \in Comps : RemoveComponent(m, c)
    \/ \E m \in Models : ReadObjectGUIDs(m)
    \/ \E m \in Models : ReadEntityTypeIds(m)
    \/ \E m \in Models : ReadEntityIds(m)
    \/ \E m \in Models : ClearStart(m)
    \/ \E m \in Models : DestroyStart(m)
    \/ ClearMesh
    \/ ClearMeshesDone
    \/ ClearComponent
    \/ ClearReset
    \/ DestroyNotify

Spec == Init /\ [][Next]_vars

\* ============================================================== properties
\* Component c is a value of components of Model m, under its id.
Attached(m, c) == reg[m].components[Component[c].id] = c

\* The Models whose components map holds c.
Owners(c) == {m \in AllModels : Attached(m, c)}

\* c is under its id in no map of r, and under no key of guidObjects.
AbsentFromEveryIndex(r, c) ==
    LET id == Component[c].id
        et == Component[c].entityType
    IN  /\ r.components[id] # c
        /\ r.types[Component[c].type].map[id] # c
        /\ r.objects[id] # c
        /\ r.meshes[id] # c
        /\ r.entities[id] # c
        /\ et # None => r.entityTypes[et].map[id] # c
        /\ c \notin ValuesOf(r.guidObjects)

\* c is in every map of r that its flags and properties call for.
PresentInEveryApplicableIndex(r, c) ==
    LET id == Component[c].id
        et == Component[c].entityType
        guid == Component[c].guid
        isObject == Component[c].isObject
    IN  /\ r.components[id] = c
        /\ r.types[Component[c].type].present
        /\ r.types[Component[c].type].map[id] = c
        /\ isObject => r.objects[id] = c
        /\ (isObject /\ Component[c].isMesh) => r.meshes[id] = c
        /\ (isObject /\ et # None) =>
              r.entities[id] = c /\ r.entityTypes[et].present /\ r.entityTypes[et].map[id] = c
        /\ (isObject /\ guid # None) => r.guidObjects[guid] = c

\* C1. Single owner: whenever no call is in progress, for every component c,
\* c.model is set if and only if exactly one Model holds c in components, and
\* c.model is that Model.
C1_SingleOwner ==
    clr = Idle =>
      \A c \in Comps :
        (model[c] # None) <=> (\E m \in AllModels : Owners(c) = {m} /\ model[c] = m)

\* C2. Transfer exclusivity: when c is in components of Model a and add(c) is
\* called on another Model b, afterwards c is in no index of a, in every
\* applicable index of b, and c.model is b.
C2_TransferExclusivity ==
    [][\A a \in Models, b \in Models, c \in Comps :
         (/\ a # b
          /\ Attached(a, c)
          /\ calls' # calls
          /\ last'.op = "add" /\ last'.m = b /\ last'.c = c)
         => (/\ AbsentFromEveryIndex(reg'[a], c)
             /\ PresentInEveryApplicableIndex(reg'[b], c)
             /\ model'[c] = b)]_vars

\* C3. Attach consistency: right after an add that returned component c on
\* Model m, c.model is m, components[c.id] and types[c.type][c.id] are c, c is in
\* objects iff c.isObject, in meshes iff c.isObject and c.isMesh, and in entities
\* and in entityTypes[c.entityType] iff c.isObject and c.entityType is set.
C3_AttachConsistency ==
    (last.op = "add" /\ last.ret # None) =>
      LET c == last.ret
          r == reg[last.m]
          id == Component[c].id
          et == Component[c].entityType
          isObject == Component[c].isObject
          inEntityTypes == IF et = None THEN FALSE
                           ELSE r.entityTypes[et].present /\ r.entityTypes[et].map[id] = c
      IN  /\ model[c] = last.m
          /\ r.components[id] = c
          /\ r.types[Component[c].type].present
          /\ r.types[Component[c].type].map[id] = c
          /\ (r.objects[id] = c) <=> isObject
          /\ (r.meshes[id] = c) <=> (isObject /\ Component[c].isMesh)
          /\ (r.entities[id] = c) <=> (isObject /\ et # None)
          /\ inEntityTypes <=> (isObject /\ et # None)

\* An add has just returned the Mesh c1, now in meshes and entityTypes.wall.
C3_Witness ==
    /\ last.op = "add" /\ last.ret = "c1"
    /\ reg[last.m].meshes["a"] = "c1"
    /\ reg[last.m].entityTypes["wall"].map["a"] = "c1"

\* C4. Whenever no call is in progress, numComponents of every Model equals
\* the number of keys of its components map.
C4_CountIsSize ==
    clr = Idle =>
      \A m \in Models : reg[m].numComponents = Cardinality(KeysOf(reg[m].components))

\* C5. Subsets: in every state, also between the destroy() calls of a clear(),
\* meshes is a sub-map of objects, objects of components, and entities of objects.
C5_Subsets ==
    \A m \in Models : \A k \in Keys :
      /\ reg[m].meshes[k] # None => reg[m].objects[k] = reg[m].meshes[k]
      /\ reg[m].objects[k] # None => reg[m].components[k] = reg[m].objects[k]
      /\ reg[m].entities[k] # None => reg[m].objects[k] = reg[m].entities[k]

\* Inside clear(): one component has removed itself on destroy, another is
\* still an entity of the Model.
C5_Witness ==
    /\ clr.phase = "components" /\ clr.visited # {}
    /\ KeysOf(reg[clr.m].entities) # {}
    /\ \E c \in Comps : destroyed[c] > 0 /\ model[c] = clr.m /\ ~Attached(clr.m, c)

\* C6. Projection freshness: every read of entityIds, entityTypeIds and
\* objectGUIDs returns exactly the keys its map (entities, entityTypes,
\* guidObjects) has at the time of the read.
C6_ProjectionFreshness ==
    /\ last.op = "entityIds" => last.keys = KeysOf(reg[last.m].entities)
    /\ last.op = "entityTypeIds" => last.keys = SubKeys(reg[last.m].entityTypes)
    /\ last.op = "objectGUIDs" => last.keys = KeysOf(reg[last.m].guidObjects)

\* C7. GUID index: whenever no call is in progress, every attached object o
\* with a guid is guidObjects[o.guid], and objectGUIDs contains o.guid.
C7_GuidIndexedByGuid ==
    clr = Idle =>
      \A m \in Models : \A c \in Comps :
        (Attached(m, c) /\ Component[c].isObject /\ Component[c].guid # None) =>
          /\ reg[m].guidObjects[Component[c].guid] = c
          /\ Component[c].guid \in objectGUIDs(reg[m])._objectGUIDs.keys

\* C8. Type index exactness: whenever no call is in progress, types[t] exists
\* iff a component in components has type t, and types[t] holds exactly the
\* components in components that have type t.
C8_TypeIndexExact ==
    clr = Idle =>
      \A m \in Models : \A t \in TypeTags :
        LET ofType == {c \in Comps : Attached(m, c) /\ Component[c].type = t}
        IN  /\ reg[m].types[t].present <=> ofType # {}
            /\ ValuesOf(reg[m].types[t].map) = ofType

\* C9. Entity index exactness: whenever no call is in progress, entities holds
\* exactly the attached objects with an entityType, and every entityTypes[e]
\* that exists holds exactly the attached entities of entityType e.
C9_EntityIndexExact ==
    clr = Idle =>
      \A m \in Models :
        LET ents == {c \in Comps : /\ Attached(m, c) /\ Component[c].isObject
                                   /\ Component[c].entityType # None}
        IN  /\ ValuesOf(reg[m].entities) = ents
            /\ \A k \in KeysOf(reg[m].entities) : Component[reg[m].entities[k]].id = k
            /\ \A e \in SubKeys(reg[m].entityTypes) :
                 ValuesOf(reg[m].entityTypes[e].map) =
                   {c \in ents : Component[c].entityType = e}

\* C10. Idempotent add: an add of a component whose id is already a key of
\* components of that Model changes neither numComponents nor any index map of
\* the Model, and returns nothing.
C10_IdempotentAdd ==
    [][\A m \in Models, c \in Comps :
         (/\ calls' # calls
          /\ last'.op = "add" /\ last'.m = m /\ last'.c = c
          /\ reg[m].components[Component[c].id] # None)
         => (/\ reg'[m].numComponents = reg[m].numComponents
             /\ reg'[m].components = reg[m].components
             /\ reg'[m].types = reg[m].types
             /\ reg'[m].objects = reg[m].objects
             /\ reg'[m].meshes = reg[m].meshes
             /\ reg'[m].entities = reg[m].entities
             /\ reg'[m].entityTypes = reg[m].entityTypes
             /\ reg'[m].guidObjects = reg[m].guidObjects
             /\ last'.ret = None)]_vars

\* An add of a component that is in components of the Model has returned
\* nothing, after an earlier add had attached it.
C10_Witness ==
    /\ last.op = "add" /\ last.c # None /\ last.ret = None
    /\ Attached(last.m, last.c)
    /\ reg[last.m].numComponents = 1

\* A clear() has returned and no call has been made since.
ClearReturned == last.op = "clear" /\ clr = Idle

\* The components that were in components of the Model when the last clear()
\* was entered.
OwnedAtClear == {c \in Comps : Component[c].scene = "S" /\ Component[c].id \in last.keys}

\* C11. Clear completeness: when clear() has returned, components, types,
\* objects, meshes and entities of the Model are empty and numComponents is 0;
\* and an add that follows attaches its component and returns it.
C11_ClearCompleteness ==
    [][/\ (last'.op = "clear" /\ clr' = Idle) =>
            /\ KeysOf(reg'[last'.m].components) = {}
            /\ SubKeys(reg'[last'.m].types) = {}
            /\ KeysOf(reg'[last'.m].objects) = {}
            /\ KeysOf(reg'[last'.m].meshes) = {}
            /\ KeysOf(reg'[last'.m].entities) = {}
            /\ reg'[last'.m].numComponents = 0
       /\ (/\ ClearReturned /\ calls' # calls
           /\ last'.op = "add" /\ last'.m = last.m
           /\ last'.c # None /\ Component[last'.c].scene = "S") =>
            /\ last'.ret = last'.c
            /\ model'[last'.c] = last.m
            /\ ValuesOf(reg'[last.m].components) = {last'.c}
            /\ ValuesOf(reg'[last.m].types[Component[last'.c].type].map) = {last'.c}
            /\ reg'[last.m].numComponents = 1]_vars

\* A clear() that destroyed two components has returned.
C11_Witness ==
    /\ ClearReturned
    /\ Cardinality({c \in OwnedAtClear : destroyed[c] > 0}) = 2

\* C12. When clear() has returned, every component that was in components when
\* it was entered has received exactly one destroy() call.
C12_DestroyedExactlyOnce ==
    ClearReturned => \A c \in OwnedAtClear : destroyed[c] = 1

\* C16. Destruction order in clear(): once a component that is no mesh has
\* been destroyed, every mesh that was in components when clear() was entered
\* has been destroyed.
C16_MeshesDestroyedFirst ==
    last.op = "clear" =>
      ((\E c \in OwnedAtClear : ~Component[c].isMesh /\ destroyed[c] > 0)
         => \A c \in OwnedAtClear : Component[c].isMesh => destroyed[c] > 0)

\* Inside clear() of a Model that held the mesh c1 and the object c2, c2 has
\* just been destroyed.
C16_Witness ==
    /\ last.op = "clear" /\ clr.phase = "components"
    /\ {"c1", "c2"} \subseteq OwnedAtClear
    /\ destroyed["c2"] = 1 /\ destroyed["c1"] > 0

\* C14. Failed add leaves the state unchanged: an add that is given an id
\* unknown to the Scene, a config whose type is no component type, or a
\* component of another Scene returns nothing and changes no field of any
\* Model (of either Scene) and no component's model reference.
C14_FailedAddNoMutation ==
    [][(/\ calls' # calls
        /\ last'.op = "add"
        /\ (last'.c = None \/ Component[last'.c].scene # "S"))
       => (/\ last'.ret = None
           /\ reg' = reg
           /\ model' = model)]_vars

\* An add of c5, of Scene "S2", was rejected, and c5 is still attached to "X".
C14_Witness ==
    /\ last.op = "add" /\ last.c = "c5" /\ last.ret = None
    /\ model["c5"] = "X"
    /\ PresentInEveryApplicableIndex(reg["X"], "c5")

\* C13. Over the lifetime of a Model the Scene receives exactly one creation
\* notification for it and at most one destruction notification, however many
\* times destroy() is called on it.
C13_NotifiedOnce ==
    \A m \in Models :
      /\ notified[m]._modelCreated = 1
      /\ notified[m]._modelDestroyed <= 1

\* The entries of the maps of r whose value is component d: map name and key.
EntriesOf(r, d) ==
    {<<"components", k>> : k \in {k \in Keys : r.components[k] = d}}
    \cup {<<"types", t, k>> : t \in {t \in TypeTags : \E k \in Keys : r.types[t].map[k] = d},
                              k \in {k \in Keys : \E t \in TypeTags : r.types[t].map[k] = d}}
    \cup {<<"objects", k>> : k \in {k \in Keys : r.objects[k] = d}}
    \cup {<<"meshes", k>> : k \in {k \in Keys : r.meshes[k] = d}}
    \cup {<<"entities", k>> : k \in {k \in Keys : r.entities[k] = d}}
    \cup {<<"entityTypes", k>> : k \in {k \in Keys : \E e \in EntityTypeTags : r.entityTypes[e].map[k] = d}}
    \cup {<<"guidObjects", k>> : k \in {k \in Keys : r.guidObjects[k] = d}}

\* The maps of r: its fields other than the counter and the cached lists.
MapsOf(r) ==
    <<r.components, r.types, r.objects, r.meshes, r.entities, r.entityTypes, r.guidObjects>>

\* C15. Remove frame condition: a remove of c from Model m leaves the entries
\* of every other component attached to m as they were, in every map, and if c
\* is not attached to m it leaves every map of m as it was.
C15_RemoveFrame ==
    [][\A m \in Models, c \in Comps :
         (calls' # calls /\ last'.op = "remove" /\ last'.m = m /\ last'.c = c)
         => (/\ \A d \in Comps \ {c} :
                  Attached(m, d) => EntriesOf(reg'[m], d) = EntriesOf(reg[m], d)
             /\ ~Attached(m, c) => MapsOf(reg'[m]) = MapsOf(reg[m]))]_vars

\* C17. Clear safety net: when clear() has returned, every map of the Model,
\* entityTypes and guidObjects included, is empty, and entityIds, entityTypeIds
\* and objectGUIDs read as empty lists, whether or not the destroyed components
\* removed themselves.
C17_ClearSafetyNet ==
    ClearReturned =>
      LET r == reg[last.m]
      IN  /\ KeysOf(r.components) = {}
          /\ \A t \in TypeTags : ~r.types[t].present
          /\ KeysOf(r.objects) = {}
          /\ KeysOf(r.meshes) = {}
          /\ KeysOf(r.entities) = {}
          /\ SubKeys(r.entityTypes) = {}
          /\ KeysOf(r.guidObjects) = {}
          /\ entityIds(r)._entityIds.keys = {}
          /\ entityTypeIds(r)._entityTypeIds.keys = {}
          /\ objectGUIDs(r)._objectGUIDs.keys = {}

\* C18. After a remove of c from a Model to which c was attached, c an object
\* with a guid, no entry of guidObjects has the value c, and the objectGUIDs
\* list read then has neither c.guid nor c.id on behalf of c (no key that maps
\* to c).
C18_GuidEntryRemoved ==
    [][\A m \in Models, c \in Comps :
         (/\ calls' # calls /\ last'.op = "remove" /\ last'.m = m /\ last'.c = c
          /\ Attached(m, c)
          /\ Component[c].isObject /\ Component[c].guid # None)
         => (/\ c \notin ValuesOf(reg'[m].guidObjects)
             /\ \A k \in objectGUIDs(reg'[m])._objectGUIDs.keys :
                  reg'[m].guidObjects[k] # c)]_vars

\* C19. Cache invalidation is exact: in every step, each of the lists
\* _entityIds, _entityTypeIds and _objectGUIDs of a Model that was built before
\* the step is null after it if and only if the step changed the key set of its
\* source map (entities, entityTypes, guidObjects).
C19_InvalidationExact ==
    [][\A m \in Models :
         /\ reg[m]._entityIds.valid =>
              (~reg'[m]._entityIds.valid
                 <=> KeysOf(reg'[m].entities) # KeysOf(reg[m].entities))
         /\ reg[m]._entityTypeIds.valid =>
              (~reg'[m]._entityTypeIds.valid
                 <=> SubKeys(reg'[m].entityTypes) # SubKeys(reg[m].entityTypes))
         /\ reg[m]._objectGUIDs.valid =>
              (~reg'[m]._objectGUIDs.valid
                 <=> KeysOf(reg'[m].guidObjects) # KeysOf(reg[m].guidObjects))]_vars

\* C20. The key set of entityTypes never shrinks: no step deletes a key of
\* entityTypes of any Model, and the list that entityTypeIds returns has every
\* key of entityTypes, also of a type that no attached entity has.
C20_EntityTypesNeverShrink ==
    [][/\ \A m \in Models :
            SubKeys(reg[m].entityTypes) \subseteq SubKeys(reg'[m].entityTypes)
       /\ (calls' # calls /\ last'.op = "entityTypeIds")
            => SubKeys(reg[last'.m].entityTypes) \subseteq last'.keys]_vars

\* clear() has emptied a Model that had an entity of type "wall", and
\* entityTypeIds, read afterwards, lists "wall" though the Model has no entity.
C20_Witness ==
    \E m \in Models :
      /\ last.op = "entityTypeIds" /\ last.m = m /\ last.keys = {"wall"}
      /\ KeysOf(reg[m].entities) = {}
      /\ KeysOf(reg[m].components) = {}
      /\ reg[m].numComponents = 0
      /\ \E c \in Comps : Component[c].entityType = "wall" /\ destroyed[c] > 0
====
